---- MODULE Spec2Model ----
(***************************************************************************)
(* Model of pyOTF's zernike.py: the Noll index <-> (n, m) degree mapping   *)
(* (noll_mapping, noll_inverse, noll2degrees, degrees2noll) and the batch  *)
(* evaluation entry point zernike with its helpers _zernike and            *)
(* _radial_zernike.                                                        *)
(*                                                                         *)
(* The module is a library of stateless functions.  A behaviour of the     *)
(* model is one call: Init draws the operation and its arguments, and the  *)
(* action of that operation runs the whole function body and records the   *)
(* outcome (a return value or the exception that leaves the function).     *)
(*                                                                         *)
(* numpy arrays are records [dt, shape, v]: dt is the dtype class ("int"   *)
(* or "float"), shape the tuple of dimensions (<<>> for a 0-d array) and v *)
(* the elements in row-major order.  Index p of a numpy array is element   *)
(* p + 1 of the TLA+ sequence.                                             *)
(*                                                                         *)
(* Polynomial sample values are floating point numbers; the model keeps    *)
(* of each value only whether it is exactly zero ("0"), finite and nonzero *)
(* ("x") or not a number ("nan").  A sample point is "in" (r <= 1, at a    *)
(* generic position where the polynomial does not vanish) or "out"         *)
(* (r > 1).                                                                *)
(***************************************************************************)
EXTENDS Integers, Sequences, FiniteSets, TLC

VARIABLES op, inp, pc, ret, degs, guarded

vars == <<op, inp, pc, ret, degs, guarded>>

(***************************************************************************)
(* Bounds of the input sets                                                *)
(***************************************************************************)
\* largest Noll index passed as a scalar (the table has 120 entries)
MaxIn == 122
\* longest sequence passed as an argument
MaxLen == 2
\* largest radial degree passed as a scalar to degrees2noll
MaxDeg == 16
\* radial degrees passed as scalars start at -MaxNegDeg
MaxNegDeg == 2
\* azimuthal degrees passed as scalars are in -MaxM..MaxM
MaxM == 18
\* largest extent of one axis of a sample grid
MaxDim == 2

(***************************************************************************)
(* Arrays                                                                  *)
(***************************************************************************)
Arr(dt, shape, v) == [dt |-> dt, shape |-> shape, v |-> v]

RECURSIVE Prod(_)
Prod(s) == IF s = <<>> THEN 1 ELSE Head(s) * Prod(Tail(s))

SeqsUpTo(S, k) == UNION {[1..l -> S] : l \in 1..k}

Scalar(dt, x) == Arr(dt, <<>>, <<x>>)

Vector(dt, s) == Arr(dt, <<Len(s)>>, s)

(***************************************************************************)
(* Module-level tables                                                     *)
(***************************************************************************)
noll_mapping_swapped ==
    <<1, 2, 3, 5, 4, 6, 9, 7, 8, 10, 15, 13, 11, 12, 14, 21, 19, 17, 16,
      18, 20, 27, 25, 23, 22, 24, 26, 28, 35, 33, 31, 29, 30, 32, 34,
      36, 45, 43, 41, 39, 37, 38, 40, 42, 44, 55, 53, 51, 49, 47, 46,
      48, 50, 52, 54, 65, 63, 61, 59, 57, 56, 58, 60, 62, 64, 66, 77,
      75, 73, 71, 69, 67, 68, 70, 72, 74, 76, 78, 91, 89, 87, 85, 83,
      81, 79, 80, 82, 84, 86, 88, 90, 105, 103, 101, 99, 97, 95, 93,
      92, 94, 96, 98, 100, 102, 104, 119, 117, 115, 113, 111, 109,
      107, 106, 108, 110, 112, 114, 116, 118, 120>>

noll_mapping ==
    <<1, 3, 2, 5, 4, 6, 9, 7, 8, 10, 15, 13, 11, 12, 14, 21, 19, 17, 16,
      18, 20, 27, 25, 23, 22, 24, 26, 28, 35, 33, 31, 29, 30, 32, 34,
      36, 45, 43, 41, 39, 37, 38, 40, 42, 44, 55, 53, 51, 49, 47, 46,
      48, 50, 52, 54, 65, 63, 61, 59, 57, 56, 58, 60, 62, 64, 66, 77,
      75, 73, 71, 69, 67, 68, 70, 72, 74, 76, 78, 91, 89, 87, 85, 83,
      81, 79, 80, 82, 84, 86, 88, 90, 105, 103, 101, 99, 97, 95, 93,
      92, 94, 96, 98, 100, 102, 104, 119, 117, 115, 113, 111, 109,
      107, 106, 108, 110, 112, 114, 116, 118, 120>>

\* numpy argsort: element i (0-based) is the 0-based position of the
\* i-th smallest entry of the table
argsort(t) ==
    [i \in 1..Len(t) |->
        (CHOOSE q \in 1..Len(t) :
            Cardinality({k \in 1..Len(t) : t[k] < t[q]}) = i - 1) - 1]

\* a plausible slip: the forward table (made 0-based) used as its own inverse
noll_inverse_forward == [i \in 1..Len(noll_mapping) |-> noll_mapping[i] - 1]

noll_inverse == argsort(noll_mapping)

(***************************************************************************)
(* numpy integer indexing t[idx] of a 1-d table with an index array:       *)
(* negative indices count from the end, anything outside -len..len-1       *)
(* raises IndexError.                                                      *)
(***************************************************************************)
InRange(t, i) == -Len(t) <= i /\ i < Len(t)

Take(t, i) == IF i < 0 THEN t[i + Len(t) + 1] ELSE t[i + 1]

(***************************************************************************)
(* noll2degrees                                                            *)
(***************************************************************************)
\* np.ceil((-3 + np.sqrt(9 + 8 * p)) / 2) with floor in place of ceil
RadialOfFloor(p) ==
    CHOOSE n \in 0..p : n * (n + 3) <= 2 * p /\ (n + 1) * (n + 4) > 2 * p

\* np.ceil((-3 + np.sqrt(9 + 8 * p)) / 2): the least n with n(n+3)/2 >= p
RadialOf(p) ==
    CHOOSE n \in 0..p :
        /\ n * (n + 3) >= 2 * p
        /\ \A k \in 0..(n - 1) : k * (k + 3) < 2 * p

noll2degrees(noll) ==
    IF noll.dt # "int" THEN [status |-> "ValueError"]
    ELSE IF \E i \in 1..Len(noll.v) : ~(noll.v[i] > 0)
    THEN [status |-> "ValueError"]
    ELSE IF \E i \in 1..Len(noll.v) : ~InRange(noll_inverse, noll.v[i] - 1)
    THEN [status |-> "IndexError"]
    ELSE LET p == [i \in 1..Len(noll.v) |-> Take(noll_inverse, noll.v[i] - 1)]
             n == [i \in 1..Len(p) |-> RadialOf(p[i])]
             m == [i \in 1..Len(p) |-> 2 * p[i] - n[i] * (n[i] + 2)]
         IN  [status |-> "ok",
              n |-> Arr("int", noll.shape, n),
              m |-> Arr("int", noll.shape, m)]

(***************************************************************************)
(* degrees2noll                                                            *)
(***************************************************************************)
\* numpy broadcasting of two arrays of at most one dimension
Broadcastable(a, b) ==
    Len(a.v) = Len(b.v) \/ Len(a.v) = 1 \/ Len(b.v) = 1

BShape(a, b) ==
    IF Len(a.shape) > Len(b.shape) THEN a.shape
    ELSE IF Len(b.shape) > Len(a.shape) THEN b.shape
    ELSE IF Len(a.v) >= Len(b.v) THEN a.shape ELSE b.shape

BAt(a, i) == IF Len(a.v) = 1 THEN a.v[1] ELSE a.v[i]

\* a plausible slip: .all() in place of .any()
OddParityAll(d) == \A i \in 1..Len(d) : d[i] % 2 # 0

\* ((n - m) % 2).any() over the elementwise differences d
OddParity(d) == \E i \in 1..Len(d) : d[i] % 2 # 0

degrees2noll(n, m) ==
    IF n.dt # "int" THEN [status |-> "ValueError"]
    ELSE IF m.dt # "int" THEN [status |-> "ValueError"]
    ELSE IF ~Broadcastable(n, m) THEN [status |-> "ValueError"]
    ELSE LET shape == BShape(n, m)
             len == Prod(shape)
             d == [i \in 1..len |-> BAt(n, i) - BAt(m, i)]
             p == [i \in 1..len |->
                     (BAt(m, i) + BAt(n, i) * (BAt(n, i) + 2)) \div 2]
         IN  IF OddParity(d) THEN [status |-> "ValueError"]
             ELSE IF \E i \in 1..len : ~InRange(noll_mapping, p[i])
             THEN [status |-> "IndexError"]
             ELSE [status |-> "ok",
                   noll |-> Arr("int", shape,
                                [i \in 1..len |-> Take(noll_mapping, p[i])])]

(***************************************************************************)
(* Inputs                                                                  *)
(***************************************************************************)
SmallNoll == {0, 1, 2, 4, 120, 121}

NollInputs ==
    {Scalar("int", j) : j \in -1..MaxIn}
    \cup {Scalar("float", j) : j \in SmallNoll}
    \cup {Vector("int", s) : s \in SeqsUpTo(SmallNoll, MaxLen)}
    \cup {Vector("float", s) : s \in SeqsUpTo({1}, MaxLen)}

SmallN == {0, 1, 2}

SmallM == {-2, -1, 0, 1}

DegreeInputs ==
    {<<Scalar("int", n), Scalar("int", m)>> :
        n \in (-MaxNegDeg)..MaxDeg, m \in (-MaxM)..MaxM}
    \cup {<<a, b>> :
        a \in {Vector("int", s) : s \in SeqsUpTo(SmallN, MaxLen)}
              \cup {Scalar("int", 2)},
        b \in {Vector("int", s) : s \in SeqsUpTo(SmallM, MaxLen)}
              \cup {Scalar("int", 0)}}
    \cup {<<Scalar(dn, 1), Scalar(dm, 1)>> :
        dn \in {"int", "float"}, dm \in {"int", "float"}}

(***************************************************************************)
(* Sample values                                                           *)
(***************************************************************************)
\* product of two floats
Mul(a, b) ==
    IF a = "nan" \/ b = "nan" THEN "nan"
    ELSE IF a = "0" \/ b = "0" THEN "0"
    ELSE "x"

\* np.linalg.norm of a flattened array
Norm(v) ==
    IF \E i \in 1..Len(v) : v[i] = "nan" THEN "nan"
    ELSE IF \E i \in 1..Len(v) : v[i] = "x" THEN "x"
    ELSE "0"

\* IEEE quotient a / d
Div(a, d) ==
    IF a = "nan" \/ d = "nan" THEN "nan"
    ELSE IF d = "0" THEN (IF a = "0" THEN "nan" ELSE "inf")
    ELSE a

(***************************************************************************)
(* _radial_zernike and _zernike                                            *)
(***************************************************************************)
\* the radial part: zero where r > 1; inside the disk 1 for (0, 0) and
\* bincoef * rn * hyper otherwise, nonzero at a generic radius
radial_zernike(r, n, m) ==
    [i \in 1..Len(r.v) |-> IF r.v[i] = "in" THEN "x" ELSE "0"]

\* _zernike; guard records whether the parity guard returned the zeros
full_zernike(r, n, m, norm) ==
    IF (m - n) % 2 # 0
    THEN [guard |-> TRUE, v |-> [i \in 1..Len(r.v) |-> "0"]]
    ELSE LET rad == radial_zernike(r, n, m)
             \* sin(m * theta) for m < 0, cos(m * theta) otherwise
             zern == [i \in 1..Len(rad) |-> Mul(rad[i], "x")]
         IN  [guard |-> FALSE,
              v |-> IF norm
                    THEN [i \in 1..Len(zern) |-> Div(zern[i], Norm(zern))]
                    ELSE zern]

(***************************************************************************)
(* zernike                                                                 *)
(***************************************************************************)
Raise(e) == [status |-> e, degs |-> <<>>, guarded |-> {}]

\* row k of a 2-d array
Row(a, k) ==
    Arr(a.dt, <<a.shape[2]>>,
        SubSeq(a.v, (k - 1) * a.shape[2] + 1, k * a.shape[2]))

RECURSIVE Concat(_)
Concat(ss) == IF ss = <<>> THEN <<>> ELSE Head(ss) \o Concat(Tail(ss))

\* ndarray.squeeze(): every axis of length one is removed
squeeze(shape) == SelectSeq(shape, LAMBDA d : d # 1)

\* lines 145-155: the sample arrays are checked, n and m flattened, one
\* polynomial evaluated per pair and the stack squeezed
evaluate(n, m, r, norm) ==
    IF Len(r.shape) > 2 THEN Raise("ValueError")
    ELSE LET k == Len(n.v)
             z == [i \in 1..k |-> full_zernike(r, n.v[i], m.v[i], norm)]
         IN  [status |-> "ok",
              shape |-> squeeze(<<k>> \o r.shape),
              v |-> Concat([i \in 1..k |-> z[i].v]),
              degs |-> [i \in 1..k |-> <<n.v[i], m.v[i]>>],
              guarded |-> {i \in 1..k : z[i].guard}]

\* ragged is the outcome of np.asarray on two arguments of different
\* shapes, which depends on the numpy version
zernike(r, args, kwargs, ragged) ==
    LET norm == IF kwargs = "default" THEN TRUE ELSE kwargs = "True"
    IN  IF Len(args) = 1
        THEN LET a == args[1]
             IN  IF Len(a.shape) < 2
                 THEN LET d == noll2degrees(a)
                      IN  IF d.status # "ok" THEN Raise(d.status)
                          ELSE evaluate(d.n, d.m, r, norm)
                 ELSE IF Len(a.shape) = 2
                 THEN IF a.shape[1] = 2
                      THEN evaluate(Row(a, 1), Row(a, 2), r, norm)
                      ELSE Raise("RuntimeError")
                 ELSE Raise("ValueError")
        ELSE IF Len(args) = 2
        THEN IF args[1].shape # args[2].shape THEN Raise(ragged)
             ELSE IF Len(args[1].shape) > 1 THEN Raise("ValueError")
             ELSE evaluate(args[1], args[2], r, norm)
        ELSE Raise("ValueError")

(***************************************************************************)
(* Inputs of zernike                                                       *)
(***************************************************************************)
ZNoll == {0, 1, 3, 121}

\* degree pairs with |m| <= n, of either parity
ZPairs == {<<0, 0>>, <<1, -1>>, <<2, 2>>, <<1, 0>>, <<2, 1>>}

Firsts(ps) == [i \in 1..Len(ps) |-> ps[i][1]]

Seconds(ps) == [i \in 1..Len(ps) |-> ps[i][2]]

\* the forms of the docstring: Noll, (n, m) and n, m
Selectors ==
    {[form |-> "Noll", args |-> <<a>>] :
        a \in {Scalar("int", j) : j \in ZNoll}
              \cup {Scalar("float", 1)}
              \cup {Vector("int", s) : s \in SeqsUpTo(ZNoll, MaxLen)}}
    \cup {[form |-> "(n, m) numerics", args |-> <<Vector("int", p)>>] :
        p \in ZPairs}
    \cup {[form |-> "(n, m) sequences",
           args |-> <<Arr("int", <<2, Len(ps)>>, Firsts(ps) \o Seconds(ps))>>] :
        ps \in SeqsUpTo(ZPairs, MaxLen)}
    \cup {[form |-> "n, m numerics",
           args |-> <<Scalar("int", p[1]), Scalar("int", p[2])>>] :
        p \in ZPairs}
    \cup {[form |-> "n, m sequences",
           args |-> <<Vector("int", Firsts(ps)), Vector("int", Seconds(ps))>>] :
        ps \in SeqsUpTo(ZPairs, MaxLen)}
    \cup {[form |-> "malformed", args |-> a] :
        a \in {<<>>,
               <<Scalar("int", 1), Scalar("int", 1), Scalar("int", 1)>>,
               <<Arr("int", <<1, 2>>, <<2, 0>>)>>,
               <<Arr("int", <<2, 1, 1>>, <<2, 0>>)>>,
               <<Arr("int", <<2, 1>>, <<2, 0>>), Arr("int", <<2, 1>>, <<2, 0>>)>>,
               <<Scalar("int", 2), Vector("int", <<0>>)>>,
               <<Vector("int", <<2>>), Vector("int", <<0, 0>>)>>}}

GridShapes ==
    {<<>>, <<1, 1, 1>>}
    \cup {<<a>> : a \in 1..MaxDim}
    \cup {<<a, b>> : a \in 1..MaxDim, b \in 1..MaxDim}

\* the first c samples lie inside the unit disk, the others outside
Grids ==
    {[shape |-> s,
      v |-> [i \in 1..Prod(s) |-> IF i <= c THEN "in" ELSE "out"]] :
        s \in GridShapes, c \in 0..(MaxDim * MaxDim)}

Kwargs == {"default", "True", "False"}

RaggedOutcomes == {"ValueError", "AttributeError"}

NoRet == [status |-> "pending"]

Init ==
    /\ pc = "call"
    /\ ret = NoRet
    /\ degs = <<>>
    /\ guarded = {}
    /\ \/ op = "noll2degrees" /\ inp \in {[noll |-> a] : a \in NollInputs}
       \/ op = "degrees2noll"
          /\ inp \in {[n |-> a[1], m |-> a[2]] : a \in DegreeInputs}
       \/ op = "zernike"
          /\ inp \in {[form |-> s.form, args |-> s.args, r |-> g, kwargs |-> k] :
                        s \in Selectors, g \in Grids, k \in Kwargs}

Noll2Degrees ==
    /\ pc = "call" /\ op = "noll2degrees"
    /\ ret' = noll2degrees(inp.noll)
    /\ pc' = "done"
    /\ UNCHANGED <<op, inp, degs, guarded>>

Degrees2Noll ==
    /\ pc = "call" /\ op = "degrees2noll"
    /\ ret' = degrees2noll(inp.n, inp.m)
    /\ pc' = "done"
    /\ UNCHANGED <<op, inp, degs, guarded>>

Zernike ==
    /\ pc = "call" /\ op = "zernike"
    /\ \E e \in RaggedOutcomes :
         LET z == zernike(inp.r, inp.args, inp.kwargs, e)
         IN  /\ ret' = IF z.status = "ok"
                       THEN [status |-> "ok", shape |-> z.shape, v |-> z.v]
                       ELSE [status |-> z.status]
             /\ degs' = z.degs
             /\ guarded' = z.guarded
    /\ pc' = "done"
    /\ UNCHANGED <<op, inp>>

Next == Noll2Degrees \/ Degrees2Noll \/ Zernike

Spec == Init /\ [][Next]_vars

(***************************************************************************)
(* Properties                                                              *)
(***************************************************************************)
Done(o) == pc = "done" /\ op = o

IsInt(a) == a.dt = "int"

\* C1: round trip over the table: for every Noll index j in 1..120,
\* noll2degrees(j) returns a pair (n, m) without error and
\* degrees2noll(n, m) returns exactly j.
RoundTripTable ==
    (/\ Done("noll2degrees")
     /\ IsInt(inp.noll)
     /\ \A i \in 1..Len(inp.noll.v) : inp.noll.v[i] \in 1..120)
    => /\ ret.status = "ok"
       /\ degrees2noll(ret.n, ret.m) = [status |-> "ok", noll |-> inp.noll]

RoundTripTableWitness ==
    /\ Done("noll2degrees")
    /\ inp.noll = Scalar("int", 120)
    /\ ret.status = "ok"
    /\ degrees2noll(ret.n, ret.m).noll.v = <<120>>

KnownDegrees ==
    <<<<0, 0>>, <<1, 1>>, <<1, -1>>, <<2, 0>>, <<2, -2>>, <<2, 2>>,
      <<3, -1>>, <<3, 1>>, <<3, -3>>, <<3, 3>>, <<4, 0>>>>

\* the 0-based position of Noll index j in noll_mapping
PositionOf(j) == CHOOSE q \in 0..(Len(noll_mapping) - 1) : noll_mapping[q + 1] = j

\* C2: known mappings: noll2degrees returns (0,0) for 1, (1,1) for 2,
\* (1,-1) for 3, (2,0) for 4, (2,-2) for 5, (2,2) for 6, (3,-1) for 7,
\* (3,1) for 8, (3,-3) for 9, (3,3) for 10 and (4,0) for 11, where n is the
\* least n with n(n+3)/2 >= p for the table position p and m = 2p - n(n+2).
KnownMappings ==
    (/\ Done("noll2degrees")
     /\ IsInt(inp.noll)
     /\ \A i \in 1..Len(inp.noll.v) : inp.noll.v[i] \in 1..11)
    => /\ ret.status = "ok"
       /\ \A i \in 1..Len(inp.noll.v) :
            LET j == inp.noll.v[i]
                n == ret.n.v[i]
                m == ret.m.v[i]
                p == PositionOf(j)
            IN  /\ <<n, m>> = KnownDegrees[j]
                /\ n >= 0
                /\ n * (n + 3) >= 2 * p
                /\ \A k \in 0..(n - 1) : k * (k + 3) < 2 * p
                /\ m = 2 * p - n * (n + 2)

KnownMappingsWitness ==
    /\ Done("noll2degrees")
    /\ inp.noll = Scalar("int", 11)
    /\ ret.status = "ok"
    /\ ret.n.v = <<4>>
    /\ ret.m.v = <<0>>

\* C3: noll2degrees succeeds exactly when every entry of its input is a
\* positive integer, with no upper bound on the index, and its only failure
\* is ValueError, raised when some entry is non-integer or <= 0.
Noll2DegreesTotalOnPositive ==
    Done("noll2degrees")
    => /\ ret.status \in {"ok", "ValueError"}
       /\ ret.status = "ok"
          <=> (IsInt(inp.noll) /\ \A i \in 1..Len(inp.noll.v) : inp.noll.v[i] > 0)

\* C4: parity rejection: for n in 0..10 and every integer m, degrees2noll
\* fails with ValueError whenever (n - m) is odd and returns no Noll index;
\* one odd-parity element of an array input fails the whole call.
ParityRejected ==
    (/\ Done("degrees2noll")
     /\ IsInt(inp.n) /\ IsInt(inp.m)
     /\ Broadcastable(inp.n, inp.m)
     /\ \E i \in 1..Prod(BShape(inp.n, inp.m)) :
          /\ BAt(inp.n, i) \in 0..10
          /\ (BAt(inp.n, i) - BAt(inp.m, i)) % 2 = 1)
    => /\ ret.status = "ValueError"
       /\ "noll" \notin DOMAIN ret

ParityRejectedWitness ==
    /\ Done("degrees2noll")
    /\ inp.n = Vector("int", <<1, 0>>)
    /\ inp.m = Vector("int", <<0, 0>>)
    /\ ret.status = "ValueError"

\* C5: degrees2noll is the exact inverse of noll2degrees: whenever
\* degrees2noll(n, m) returns a Noll index j for integer inputs,
\* noll2degrees(j) returns exactly (n, m).
Degrees2NollExactInverse ==
    (Done("degrees2noll") /\ ret.status = "ok")
    => LET back == noll2degrees(ret.noll)
       IN  /\ back.status = "ok"
           /\ \A i \in 1..Len(ret.noll.v) :
                /\ back.n.v[i] = BAt(inp.n, i)
                /\ back.m.v[i] = BAt(inp.m, i)

\* the Noll index degrees2noll gives the scalar pair (n, m)
NollOf(n, m) == degrees2noll(Scalar("int", n), Scalar("int", m)).noll.v[1]

\* a scalar call of degrees2noll with n in 1..14 and m # 0 a valid azimuthal
\* degree of n
SignedPairCall ==
    /\ Done("degrees2noll")
    /\ IsInt(inp.n) /\ IsInt(inp.m)
    /\ inp.n.shape = <<>> /\ inp.m.shape = <<>>
    /\ inp.n.v[1] \in 1..14
    /\ inp.m.v[1] # 0
    /\ inp.m.v[1] \in (-inp.n.v[1])..inp.n.v[1]
    /\ (inp.n.v[1] - inp.m.v[1]) % 2 = 0

\* C6 as stated: (n, -|m|) and (n, +|m|) occupy two consecutive Noll indices;
\* for n mod 4 in {0, 1} the sine member (m < 0) gets the lower index, for
\* n mod 4 in {2, 3} the cosine member (m > 0) gets the lower index.
SineFirstForRows01 ==
    SignedPairCall
    => LET n == inp.n.v[1]
           m == inp.m.v[1]
           sineLower == (n % 4) \in {0, 1}
       IN  /\ ret.status = "ok"
           /\ ret.noll.v[1] - NollOf(n, -m)
                = IF (m < 0) = sineLower THEN -1 ELSE 1

\* C6 amended: (n, -|m|) and (n, +|m|) occupy two consecutive Noll indices;
\* for n mod 4 in {0, 1} the cosine member (m > 0) gets the lower index and
\* the sine member (m < 0) the higher, for n mod 4 in {2, 3} the sine member
\* gets the lower index and the cosine member the higher.
CosineFirstForRows01 ==
    SignedPairCall
    => LET n == inp.n.v[1]
           m == inp.m.v[1]
           cosineLower == (n % 4) \in {0, 1}
       IN  /\ ret.status = "ok"
           /\ ret.noll.v[1] - NollOf(n, -m)
                = IF (m > 0) = cosineLower THEN -1 ELSE 1

CosineFirstWitness ==
    /\ SignedPairCall
    /\ inp.n.v[1] = 4
    /\ inp.m.v[1] = -2
    /\ ret.status = "ok"
    /\ ret.noll.v[1] = 13
    /\ NollOf(4, 2) = 12

\* the samples of polynomial k (1-based) in the stacked result
SamplesOf(k) ==
    SubSeq(ret.v, (k - 1) * Len(inp.r.v) + 1, k * Len(inp.r.v))

\* C7: selector resolution: a single selector argument that is one (n, m)
\* pair of scalars is resolved to the single degree pair (n, m) and yields
\* exactly one polynomial; it is not read as a sequence of two Noll indices.
PairOfScalarsIsOneDegreePair ==
    (/\ Done("zernike")
     /\ inp.form = "(n, m) numerics"
     /\ Len(inp.r.shape) <= 2)
    => /\ ret.status = "ok"
       /\ degs = <<inp.args[1].v>>

\* C8: output shape: k > 1 polynomials over sample arrays of shape S give
\* shape (k,) + S, one polynomial gives shape S; only the leading polynomial
\* axis is ever collapsed, also when S has axes of length one.
OnlyLeadingAxisCollapsed ==
    (Done("zernike") /\ ret.status = "ok")
    => ret.shape = IF Len(degs) > 1
                   THEN <<Len(degs)>> \o inp.r.shape
                   ELSE inp.r.shape

\* C9: support boundary: for every degree pair, every norm setting and every
\* sample grid, the value returned at each sample point with r > 1 is
\* exactly 0.
ZeroOutsideDisk ==
    (Done("zernike") /\ ret.status = "ok")
    => \A k \in 1..Len(degs) : \A i \in 1..Len(inp.r.v) :
          inp.r.v[i] = "out" => SamplesOf(k)[i] = "0"

\* a call of zernike with degree pairs (two arguments, or one argument of
\* two rows) over sample arrays of at most two dimensions
DegreePairCall ==
    /\ Done("zernike")
    /\ inp.form \in {"(n, m) sequences", "n, m numerics", "n, m sequences"}
    /\ Len(inp.r.shape) <= 2

\* the degree pairs the caller passed, in request order
PairsPassed ==
    IF inp.form = "(n, m) sequences"
    THEN LET a == inp.args[1]
         IN  [i \in 1..a.shape[2] |-> <<Row(a, 1).v[i], Row(a, 2).v[i]>>]
    ELSE [i \in 1..Len(inp.args[1].v) |-> <<inp.args[1].v[i], inp.args[2].v[i]>>]

OddPairs == {i \in 1..Len(PairsPassed) : (PairsPassed[i][1] - PairsPassed[i][2]) % 2 = 1}

\* C10: parity is enforced at the batch entry point: zernike called with
\* degree pairs containing a pair with (n - m) odd fails with ValueError and
\* evaluates nothing, so the parity guard of _zernike is never reached
\* through zernike.
ParityEnforcedAtEntry ==
    (DegreePairCall /\ OddPairs # {})
    => /\ ret.status = "ValueError"
       /\ guarded = {}

====
